---------------------------- MODULE Spec2Model ----------------------------
(***************************************************************************)
(* A model of scripts/constituents.py (class ConstituentVarDict):          *)
(*   - find_variable over a chain of constituent dictionaries,             *)
(*   - write_constituent_routines, the generator of a suite's routines,    *)
(*   - the run-time behaviour of the routines it emits for a suite,        *)
(*   - the run-time behaviour of the host registration routine emitted by  *)
(*     write_host_routines.                                                *)
(***************************************************************************)
EXTENDS Integers, Sequences, FiniteSets, TLC

(***************************************************************************)
(* Bounds of the model.                                                    *)
(***************************************************************************)
\* number of dictionaries in the parent chain T_ChainLen -> ... -> T_1
ChainLen == 3
\* number of find_variable calls in one behaviour
MaxCalls == 2
\* number of constituents of one suite
MaxConsts == 3
\* number of names the host requires
MaxRequired == 3

VARIABLES
    \* ---- find_variable ----
    dicts,      \* dicts[t]: the ordered entries of dictionary t
    call,       \* the arguments of the last find_variable call
    ret,        \* its return value: <<>> (None) or <<var>>
    raised,     \* whether it raised ParseInternalError
    ncalls,     \* calls made so far
    \* ---- write_constituent_routines ----
    gen_self,   \* the dictionary: its standard names in insertion order
    suite_name, \* the suite's name
    err_vars,   \* the local names of the error variables passed in
    outfile,    \* the lines written so far
    gen_pc,     \* the part of the routine to write next
    gen_raised, \* whether ParseInternalError was raised
    \* ---- the emitted suite routines at run time ----
    ctable,      \* ctable[s]: the dictionary suite s's routines were written from
    initialized, \* initialized[s]: the module flag ccpp_constituents_initialized
    carray,      \* carray[s]: ccpp_constituent_array, <<>> while not allocated
    errflg,      \* the caller's status variable
    errmsg,      \* the caller's message variable
    rt,          \* the last call of a suite routine and what it did
    init_runs,   \* init_runs[s]: executions of ccpp_create_constituent_array
    \* ---- the emitted host registration routine at run time ----
    pc,               \* the statement to execute next
    entry_errflg,     \* the value errflg held when the routine was entered
    si,               \* the position in suite_list of the block being executed
    num_consts,       \* local variables of the routine
    num_suite_consts,
    index,
    field_ind,
    const_prop,
    reg,              \* the constituent object (the shared registry)
    const_names,      \* the host's list of required standard names
    const_indices,    \* the host's index array, 0 where not yet written
    trace             \* the calls made by the routine, in order

resolveVars == <<dicts, call, ret, raised, ncalls>>

genVars == <<gen_self, suite_name, err_vars, outfile, gen_pc, gen_raised>>

suiteVars == <<ctable, initialized, carray, errflg, errmsg, rt, init_runs>>

hostVars == <<pc, entry_errflg, si, num_consts, num_suite_consts, index,
              field_ind, const_prop, reg, const_names, const_indices, trace>>

vars == <<dicts, call, ret, raised, ncalls,
          gen_self, suite_name, err_vars, outfile, gen_pc, gen_raised,
          ctable, initialized, carray, errflg, errmsg, rt, init_runs,
          pc, entry_errflg, si, num_consts, num_suite_consts, index,
          field_ind, const_prop, reg, const_names, const_indices, trace>>

(***************************************************************************)
(* Strings that the code splits or formats are sequences of symbols: a     *)
(* symbol is the separator ":" or a word.                                  *)
(***************************************************************************)
Colon == ":"

\* index of the first ":" of s, 0 when there is none
RECURSIVE FirstColon(_, _)
FirstColon(s, i) ==
    IF i > Len(s) THEN 0
    ELSE IF s[i] = Colon THEN i
    ELSE FirstColon(s, i + 1)

\* str.split(':')
RECURSIVE Split(_)
Split(s) ==
    LET i == FirstColon(s, 1)
    IN  IF i = 0 THEN <<s>>
        ELSE <<SubSeq(s, 1, i - 1)>> \o Split(SubSeq(s, i + 1, Len(s)))

\* ':'.join(toks)
RECURSIVE Join(_)
Join(toks) ==
    IF Len(toks) = 0 THEN <<>>
    ELSE IF Len(toks) = 1 THEN toks[1]
    ELSE toks[1] \o <<Colon>> \o Join(Tail(toks))

(***************************************************************************)
(* find_variable                                                           *)
(***************************************************************************)
Dicts == 1..ChainLen

\* _parent_dict: dictionary t's parent, 0 for the root
ParentOf(t) == t - 1

constituent_type == "suite"

\* The loop substitution of one dimension name (lines 108-115)
NewDnameNoEnd(dstdname) ==
    IF dstdname = <<"horizontal_loop_extent">> THEN <<"horizontal_dimension">>
    ELSE IF dstdname = <<"horizontal_loop_begin">> THEN <<"ccpp_constant_one">>
    ELSE dstdname

NewDname(dstdname) ==
    IF dstdname = <<"horizontal_loop_extent">> THEN <<"horizontal_dimension">>
    ELSE IF dstdname = <<"horizontal_loop_end">> THEN <<"horizontal_dimension">>
    ELSE IF dstdname = <<"horizontal_loop_begin">> THEN <<"ccpp_constant_one">>
    ELSE dstdname

\* One dimension: split on ':', substitute, join (lines 105-118)
NewDim(dim) ==
    LET dstdnames == Split(dim)
        new_dnames == [k \in 1..Len(dstdnames) |-> NewDname(dstdnames[k])]
    IN  Join(new_dnames)

\* The new dimension list (lines 102-119)
NewDims(dims) == [k \in 1..Len(dims) |-> NewDim(dims[k])]

\* Var.clone(subst_dict, remove_intent, source_type)
Clone(var, newdims, remove_intent, source_type) ==
    [var EXCEPT !.dimensions = newdims,
                !.intent = IF remove_intent THEN "" ELSE var.intent,
                !.source_type = source_type]

\* standard_name in self
InDict(d, name) == \E i \in 1..Len(d) : d[i].standard_name = name

\* self[standard_name]
Lookup(d, name) == d[CHOOSE i \in 1..Len(d) : d[i].standard_name = name]

\* VarDictionary.add_variable: a new key goes last
AddVariable(d, var) == Append(d, var)

\* a mutant: a source variable of another name is let through
NameArgAnyPair(standard_name, source_var) ==
    IF standard_name = <<>> THEN
        IF source_var = <<>> THEN [raised |-> TRUE, name |-> ""]
        ELSE [raised |-> FALSE, name |-> source_var[1].standard_name]
    ELSE [raised |-> FALSE, name |-> standard_name[1]]

\* The argument check (lines 71-84): the name searched for, or a raise
NameArg(standard_name, source_var) ==
    IF standard_name = <<>> THEN
        IF source_var = <<>> THEN [raised |-> TRUE, name |-> ""]
        ELSE [raised |-> FALSE, name |-> source_var[1].standard_name]
    ELSE IF source_var # <<>> /\ source_var[1].standard_name # standard_name[1]
        THEN [raised |-> TRUE, name |-> ""]
    ELSE [raised |-> FALSE, name |-> standard_name[1]]

\* A mutant of the search: the parent is asked for its own entries only
RECURSIVE find_variable_onehop(_, _, _, _, _)
find_variable_onehop(ds, t, standard_name, source_var, any_scope) ==
    LET arg == NameArg(standard_name, source_var)
        up  == IF arg.raised THEN [raised |-> TRUE, var |-> <<>>, dicts |-> ds]
               ELSE IF InDict(ds[t], arg.name)
                   THEN [raised |-> FALSE, var |-> <<Lookup(ds[t], arg.name)>>,
                         dicts |-> ds]
               ELSE IF any_scope /\ ParentOf(t) # 0
                   THEN find_variable_onehop(ds, ParentOf(t), <<arg.name>>,
                                             source_var, FALSE)
               ELSE [raised |-> FALSE, var |-> <<>>, dicts |-> ds]
    IN  IF ~up.raised /\ up.var = <<>> /\ source_var # <<>>
            /\ source_var[1].constituent
        THEN LET var == Clone(source_var[1], NewDims(source_var[1].dimensions),
                              TRUE, constituent_type)
             IN  [raised |-> FALSE, var |-> <<var>>,
                  dicts |-> [up.dicts EXCEPT ![t] = AddVariable(@, var)]]
        ELSE up

\* find_variable on dictionary t of the chain ds (lines 53-123): the return
\* value, whether it raised, and the dictionaries afterwards
RECURSIVE find_variable(_, _, _, _, _)
find_variable(ds, t, standard_name, source_var, any_scope) ==
    LET arg == NameArg(standard_name, source_var)
        up  == IF arg.raised THEN [raised |-> TRUE, var |-> <<>>, dicts |-> ds]
               ELSE IF InDict(ds[t], arg.name)
                   THEN [raised |-> FALSE, var |-> <<Lookup(ds[t], arg.name)>>,
                         dicts |-> ds]
               ELSE IF any_scope /\ ParentOf(t) # 0
                   THEN find_variable(ds, ParentOf(t), <<arg.name>>,
                                      source_var, any_scope)
               ELSE [raised |-> FALSE, var |-> <<>>, dicts |-> ds]
    IN  IF ~up.raised /\ up.var = <<>> /\ source_var # <<>>
            /\ source_var[1].constituent
        THEN LET var == Clone(source_var[1], NewDims(source_var[1].dimensions),
                              TRUE, constituent_type)
             IN  [raised |-> FALSE, var |-> <<var>>,
                  dicts |-> [up.dicts EXCEPT ![t] = AddVariable(@, var)]]
        ELSE up

(***************************************************************************)
(* The inputs of find_variable                                             *)
(***************************************************************************)
StdNames == {"qv", "ql"}

\* the dimensions a variable of each name is declared with
DimsOf(name) ==
    IF name = "qv"
    THEN << <<"horizontal_loop_begin", Colon, "horizontal_loop_end">>,
            <<"vertical_layer_dimension">> >>
    ELSE << <<"horizontal_loop_extent">>,
            <<"ccpp_constant_one", Colon, "vertical_interface_dimension">> >>

\* a variable as a scheme declares it
SchemeVar(name, is_const) ==
    [standard_name |-> name, dimensions |-> DimsOf(name), intent |-> "inout",
     source_type |-> "scheme", constituent |-> is_const]

\* a variable of the host model, already in a dictionary
HostVar(name) ==
    [standard_name |-> name,
     dimensions |-> << <<"horizontal_dimension">> >>, intent |-> "",
     source_type |-> "module", constituent |-> FALSE]

SourceVars == {SchemeVar(n, c) : n \in StdNames, c \in BOOLEAN}

Opt(S) == {<<>>} \cup {<<x>> : x \in S}

NoCall == [dict |-> 0, standard_name |-> <<>>, source_var |-> <<>>,
           any_scope |-> TRUE]

(***************************************************************************)
(* write_constituent_routines: the generator of one suite's routines.      *)
(* A line is a sequence of symbols; "{}" is a replacement field.           *)
(***************************************************************************)
Field == "{}"

\* str.format: each replacement field takes the next argument
RECURSIVE Format(_, _)
Format(t, args) ==
    IF Len(t) = 0 THEN <<>>
    ELSE IF Head(t) = Field /\ Len(args) > 0
        THEN Head(args) \o Format(Tail(t), Tail(args))
    ELSE <<Head(t)>> \o Format(Tail(t), args)

\* ", ".join(items)
RECURSIVE JoinComma(_)
JoinComma(items) ==
    IF Len(items) = 0 THEN <<>>
    ELSE IF Len(items) = 1 THEN items[1]
    ELSE items[1] \o <<", ">> \o JoinComma(Tail(items))

\* the concatenation of a sequence of sequences
RECURSIVE Flatten(_)
Flatten(ss) == IF Len(ss) = 0 THEN <<>> ELSE Head(ss) \o Flatten(Tail(ss))

const_prop_array_name == "ccpp_constituent_array"
const_prop_init_name == "ccpp_constituents_initialized"
const_prop_init_consts == "ccpp_create_constituent_array"
const_prop_type_name == "ccpp_constituent_properties_t"

num_consts_funcname(name) == <<name, "_num_consts">>
const_name_subname(name) == <<name, "_const_name">>
copy_const_subname(name) == <<name, "_copy_const">>

\* the standard names constituents are taken from
Pool == <<"cld_liq", "cld_ice", "rain", "snow", "graupel", "ozone", "dust",
          "salt", "soot", "ash">>

\* var.get_dim_stdnames() of the constituent of each standard name
DimStdnames(std_name) ==
    IF std_name \in {"ozone", "snow"}
    THEN {"horizontal_dimension", "vertical_interface_dimension"}
    ELSE IF std_name \in {"dust", "rain"} THEN {"horizontal_dimension"}
    ELSE {"horizontal_dimension", "vertical_layer_dimension"}

\* var.get_prop_value('advected')
Advected(std_name) == std_name \notin {"cld_ice", "dust"}

TF_string(tf_val) == IF tf_val THEN ".true." ELSE ".false."

\* the vertical dimension passed to the constructor (lines 241-248)
VerticalDim(std_name) ==
    IF "vertical_layer_dimension" \in DimStdnames(std_name)
        THEN "vertical_layer_dimension"
    ELSE IF "vertical_interface_dimension" \in DimStdnames(std_name)
        THEN "vertical_interface_dimension"
    ELSE ""

\* a mutant: errflg or errmsg is enough
UseErrflgEither(errvar_names) ==
    (\E i \in 1..Len(errvar_names) : errvar_names[i] = "errflg")
    \/ (\E i \in 1..Len(errvar_names) : errvar_names[i] = "errmsg")

\* use_errflg (line 215)
UseErrflg(errvar_names) ==
    (\E i \in 1..Len(errvar_names) : errvar_names[i] = "errflg")
    /\ (\E i \in 1..Len(errvar_names) : errvar_names[i] = "errmsg")

\* lines 216-219
errvar_alist(names) == JoinComma([i \in 1..Len(names) |-> <<names[i]>>])
errvar_alist2(names) ==
    IF errvar_alist(names) # <<>> THEN <<", ">> \o errvar_alist(names)
    ELSE <<>>
errvar_call(names) ==
    JoinComma([i \in 1..Len(names) |-> <<names[i], "=", names[i]>>])
errvar_call2(names) ==
    IF errvar_call(names) # <<>> THEN <<", ">> \o errvar_call(names)
    ELSE <<>>

\* evar.write_def for each error variable: one declaration each
WriteDefs(names) == [i \in 1..Len(names) |-> <<"<declaration of> ", names[i]>>]

Separator == <<"! ====">>

\* the message of the emitted check that the table is initialized
NotInitializedMsg(sname) ==
    Format(<<"constituent properties not initialized for suite, ", Field>>,
           << <<sname>> >>)

\* the message of the emitted code for a suite without constituents: the
\* statement is written as it stands, its field not replaced (lines 200-202)
NoConstituentsMsg(sname) == <<"ERROR: suite, ", Field, ", has no constituents">>

\* _write_init_check (lines 153-175): the lines written, and whether it
\* raised
write_init_check(sname, use_errflg) ==
    IF ~use_errflg THEN [raised |-> TRUE, lines |-> << <<"">> >>]
    ELSE [raised |-> FALSE,
          lines |->
            << <<"">>,
               <<"errflg = 0">>,
               <<"errmsg = ''">>,
               <<"! Make sure that our constituent array is initialized">>,
               Format(<<"if (.not. ", Field, ") then">>,
                      << <<const_prop_init_name>> >>),
               <<"errflg = 1">>,
               <<"errmsg = \"">> \o NotInitializedMsg(sname) \o <<"\"">>,
               <<"end if">> >>]

\* _write_index_check (lines 177-206)
write_index_check(self, sname, use_errflg) ==
    IF ~use_errflg THEN [raised |-> TRUE, lines |-> <<>>]
    ELSE IF self # <<>> THEN
         [raised |-> FALSE,
          lines |->
            << <<"if (index < 1) then">>,
               <<"errflg = 1">>,
               <<"write(errmsg, '(a,i0,a)') 'ERROR: index (',index,') ",
                 "too small, must be >= 1'">>,
               Format(<<"else if (index > SIZE(", Field, ")) then">>,
                      << <<const_prop_array_name>> >>),
               <<"errflg = 1">>,
               Format(<<"write(errmsg, '(2(a,i0))') 'ERROR: index (',index,') ",
                        "too large, must be <= ', SIZE(", Field, ")">>,
                      << <<const_prop_array_name>> >>),
               <<"end if">> >>]
    ELSE [raised |-> FALSE,
          lines |->
            << <<"errflg = 1">>,
               <<"write(errmsg, '(a,i0,a)') '">> \o NoConstituentsMsg(sname)
                   \o <<"'">> >>]

\* the routine that allocates and fills the array (lines 221-260)
InitRoutineLines(self, names) ==
    << Format(<<"subroutine ", Field, "(", Field, ")">>,
              << <<const_prop_init_consts>>, errvar_alist(names) >>),
       <<"! Allocate and fill the constituent property array">>,
       <<"!    for this suite">>,
       <<"! Dummy arguments">> >>
    \o WriteDefs(names)
    \o (IF self # <<>>
        THEN << <<"! Local variables">>,
                <<"integer :: index">>,
                Format(<<"allocate(", Field, "(", Field, "))">>,
                       << <<const_prop_array_name>>, <<ToString(Len(self))>> >>),
                <<"index = 0">> >>
        ELSE <<>>)
    \o Flatten([k \in 1..Len(self) |->
          << <<"index = index + 1">>,
             Format(<<"call ", Field, "(index)%initialize(\"", Field,
                      "\", \"", Field, "\", ", Field, Field, ")">>,
                    << <<const_prop_array_name>>, <<self[k]>>,
                       <<VerticalDim(self[k])>>,
                       <<TF_string(Advected(self[k]))>>,
                       errvar_call2(names) >>) >>])
    \o << Format(<<Field, " = .true.">>, << <<const_prop_init_name>> >>),
          Format(<<"end subroutine ", Field>>, << <<const_prop_init_consts>> >>),
          <<"">>,
          Separator >>

\* the function that returns the number of constituents (lines 262-280)
NumConstsLines(self, sname, names) ==
    << Format(<<"integer function ", Field, "(", Field, ")">>,
              << num_consts_funcname(sname), errvar_alist(names) >>),
       <<"! Return the number of constituents for this suite">>,
       <<"! Dummy arguments">> >>
    \o WriteDefs(names)
    \o << <<"! Make sure that our constituent array is initialized">>,
          Format(<<"if (.not. ", Field, ") then">>,
                 << <<const_prop_init_name>> >>),
          Format(<<"call ", Field, "(", Field, ")">>,
                 << <<const_prop_init_consts>>, errvar_call(names) >>),
          <<"end if">>,
          Format(<<Field, " = ", Field>>,
                 << num_consts_funcname(sname), <<ToString(Len(self))>> >>),
          Format(<<"end function ", Field>>, << num_consts_funcname(sname) >>),
          Separator >>

\* the head of the name and copy routines (lines 282-291, 305-315)
ConstNameHead(sname, names) ==
    << Format(<<"subroutine ", Field, "(index, name_out", Field, ")">>,
              << const_name_subname(sname), errvar_alist2(names) >>),
       <<"! Return the name of constituent, <index>">>,
       <<"! Dummy arguments">>,
       <<"integer,            intent(in)    :: index">>,
       <<"character(len=*),   intent(out)   :: name_out">> >>
    \o WriteDefs(names)

CopyConstHead(sname, names) ==
    << Format(<<"subroutine ", Field, "(index, cnst_out", Field, ")">>,
              << copy_const_subname(sname), errvar_alist2(names) >>),
       <<"! Copy the data for a constituent">>,
       <<"! Dummy arguments">>,
       <<"integer,            intent(in)    :: index">>,
       Format(<<"type(", Field, "), intent(out)     :: cnst_out">>,
              << <<const_prop_type_name>> >>) >>
    \o WriteDefs(names)

\* A routine's head, its two checks, its body and its end: the lines
\* written, up to the raise if one of the checks raises
GuardedRoutine(head, self, sname, use_errflg, body, tail) ==
    LET ic == write_init_check(sname, use_errflg)
        xc == write_index_check(self, sname, use_errflg)
    IN  IF ic.raised THEN [raised |-> TRUE, lines |-> head \o ic.lines]
        ELSE IF xc.raised
            THEN [raised |-> TRUE, lines |-> head \o ic.lines \o xc.lines]
        ELSE [raised |-> FALSE,
              lines |-> head \o ic.lines \o xc.lines
                        \o (IF self # <<>> THEN body ELSE <<>>) \o tail]

\* lines 282-303
ConstNameRoutine(self, sname, names) ==
    GuardedRoutine(ConstNameHead(sname, names), self, sname, UseErrflg(names),
        << Format(<<"call ", Field, "(index)%standard_name(name_out", Field,
                    ")">>,
                  << <<const_prop_array_name>>, errvar_call2(names) >>) >>,
        << Format(<<"end subroutine ", Field>>,
                  << const_name_subname(sname) >>),
           Separator >>)

\* lines 305-325
CopyConstRoutine(self, sname, names) ==
    GuardedRoutine(CopyConstHead(sname, names), self, sname, UseErrflg(names),
        << Format(<<"cnst_out = ", Field, "(index)">>,
                  << <<const_prop_array_name>> >>) >>,
        << Format(<<"end subroutine ", Field>>,
                  << copy_const_subname(sname) >>) >>)

(***************************************************************************)
(* The generator's inputs and steps                                        *)
(***************************************************************************)
ErrNames == {"errflg", "errmsg", "errcode"}

\* the lists of distinct error variables
ErrVarLists ==
    {l \in UNION {[1..n -> ErrNames] : n \in 0..Cardinality(ErrNames)} :
        \A i, j \in 1..Len(l) : i # j => l[i] # l[j]}

SuiteNames == {"phys1", "phys2"}

\* a suite's dictionary: its first n constituents
DictOf(first, n) == [k \in 1..n |-> Pool[first + k]]

(***************************************************************************)
(* The routines write_constituent_routines emits for a suite, as they run. *)
(* self is the dictionary they were written from; the statements written   *)
(* under "if self:" are there exactly when self is not empty.              *)
(***************************************************************************)
\* an element of the properties array the constructor has not filled
NoProp == [std_name |-> "", vertical_dim |-> "", advected |-> FALSE]

\* what a read outside an allocated array yields
UndefinedProp ==
    [std_name |-> "<undefined>", vertical_dim |-> "<undefined>",
     advected |-> FALSE]

\* ccpp_constituent_properties_t%initialize: fills the element; it reports
\* success in errflg and errmsg
PropInitialize(std_name, vertical_dim, advected) ==
    [std_name |-> std_name, vertical_dim |-> vertical_dim,
     advected |-> advected]

\* a mutant: the array is allocated one element short
AllocSizeShort(self) == Len(self) - 1

\* the size in the emitted allocate statement (lines 234-236)
AllocSize(self) == Len(self)

\* a mutant: the index starts at 1
IndexStartOne == 0 + 1

\* the emitted "index = 0" (line 237)
IndexStart == 0

\* The emitted statements of the loop over self.items() (lines 239-254),
\* from entry k on: each adds one to index and constructs array(index).
\* The array afterwards and the indices written.
RECURSIVE FillArray(_, _, _, _)
FillArray(arr, self, k, ix) ==
    IF k > Len(self) THEN [array |-> arr, writes |-> {}]
    ELSE LET next == ix + 1
             elem == PropInitialize(self[k], VerticalDim(self[k]),
                                    Advected(self[k]))
             arr2 == IF next \in 1..Len(arr)
                     THEN [arr EXCEPT ![next] = elem] ELSE arr
             rest == FillArray(arr2, self, k + 1, next)
         IN  [array |-> rest.array, writes |-> {next} \cup rest.writes]

\* the emitted ccpp_create_constituent_array (lines 221-258)
create_constituent_array(self) ==
    IF self # <<>>
    THEN FillArray([k \in 1..AllocSize(self) |-> NoProp], self, 1, IndexStart)
    ELSE [array |-> <<>>, writes |-> {}]

\* a mutant: the count function builds the array on every call
suite_num_consts_always_init(self, inited, arr, ef, em) ==
    LET c == create_constituent_array(self)
    IN  [initialized |-> TRUE, array |-> c.array, writes |-> c.writes,
         ran_init |-> TRUE,
         errflg |-> IF self # <<>> THEN 0 ELSE ef,
         errmsg |-> IF self # <<>> THEN <<>> ELSE em,
         value |-> Len(self)]

\* the emitted <suite>_num_consts (lines 262-279): the flag, the array, the
\* caller's error variables and the function value afterwards. The error
\* variables are set only by the constructor calls of the init routine.
suite_num_consts(self, inited, arr, ef, em) ==
    IF ~inited
    THEN LET c == create_constituent_array(self)
         IN  [initialized |-> TRUE, array |-> c.array, writes |-> c.writes,
              ran_init |-> TRUE,
              errflg |-> IF self # <<>> THEN 0 ELSE ef,
              errmsg |-> IF self # <<>> THEN <<>> ELSE em,
              value |-> Len(self)]
    ELSE [initialized |-> inited, array |-> arr, writes |-> {},
          ran_init |-> FALSE, errflg |-> ef, errmsg |-> em,
          value |-> Len(self)]

TooSmallMsg(ix) ==
    <<"ERROR: index (", ToString(ix), ") too small, must be >= 1">>

TooLargeMsg(ix, sz) ==
    <<"ERROR: index (", ToString(ix), ") too large, must be <= ",
      ToString(sz)>>

\* the emitted statements of _write_init_check (lines 160-174)
init_check(sname, inited) ==
    IF ~inited THEN [errflg |-> 1, errmsg |-> NotInitializedMsg(sname)]
    ELSE [errflg |-> 0, errmsg |-> <<>>]

\* the emitted statements of _write_index_check (lines 183-202), run with
\* the error variables as e; sz is SIZE(ccpp_constituent_array)
index_check(self, sname, ix, sz, e) ==
    IF self # <<>> THEN
        IF ix < 1 THEN [errflg |-> 1, errmsg |-> TooSmallMsg(ix)]
        ELSE IF ix > sz THEN [errflg |-> 1, errmsg |-> TooLargeMsg(ix, sz)]
        ELSE e
    ELSE [errflg |-> 1, errmsg |-> NoConstituentsMsg(sname)]

\* SIZE(ccpp_constituent_array): of an array that is not allocated it is
\* not defined
SizeOutcomes(arr) == IF arr # <<>> THEN {Len(arr)} ELSE 0..MaxConsts

\* ccpp_constituent_array(index) is an element of the allocated array
ValidElement(arr, ix) == ix \in 1..Len(arr)

\* what the accessor called on an undefined element may report
UndefinedOutcomes ==
    {[errflg |-> 0, errmsg |-> <<>>],
     [errflg |-> 1, errmsg |-> <<"<undefined>">>]}

\* the emitted <suite>_const_name (lines 282-302). The accessor call that
\* follows the two checks is not inside them: it is executed whatever the
\* checks found. ub is what it reports on an undefined element.
const_name(self, sname, inited, arr, ix, sz, ub) ==
    LET e == index_check(self, sname, ix, sz, init_check(sname, inited))
    IN  IF self = <<>>
        THEN [errflg |-> e.errflg, errmsg |-> e.errmsg, name_out |-> "",
              reads |-> {}]
        ELSE IF ValidElement(arr, ix) /\ arr[ix] # NoProp
            THEN [errflg |-> 0, errmsg |-> <<>>,
                  name_out |-> arr[ix].std_name, reads |-> {ix}]
        ELSE [errflg |-> ub.errflg, errmsg |-> ub.errmsg,
              name_out |-> UndefinedProp.std_name, reads |-> {ix}]

\* the emitted <suite>_copy_const (lines 305-325): the assignment that
\* follows the two checks is executed whatever the checks found
copy_const(self, sname, inited, arr, ix, sz) ==
    LET e == index_check(self, sname, ix, sz, init_check(sname, inited))
    IN  IF self = <<>>
        THEN [errflg |-> e.errflg, errmsg |-> e.errmsg, cnst_out |-> NoProp,
              reads |-> {}]
        ELSE [errflg |-> e.errflg, errmsg |-> e.errmsg,
              cnst_out |-> IF ValidElement(arr, ix) THEN arr[ix]
                           ELSE UndefinedProp,
              reads |-> {ix}]

\* the suites, in the order of suite_list
SuiteList == <<"phys1", "phys2">>

\* where in Pool a suite's constituents start
FirstOf(s) == IF s = SuiteList[1] THEN 0 ELSE MaxConsts

\* the dictionaries the suites' routines may have been written from: the
\* suites have no constituent in common
SuiteTables ==
    {[s \in SuiteNames |->
        DictOf(FirstOf(s), IF s = SuiteList[1] THEN n1 ELSE n2)] :
     n1 \in 0..MaxConsts, n2 \in 0..MaxConsts}

NoRt == [routine |-> "", suite |-> "", index |-> 0, reads |-> {},
         writes |-> {}, ran_init |-> FALSE, value |-> 0, name_out |-> "",
         cnst_out |-> NoProp]

(***************************************************************************)
(* The constituent object (ccpp_model_constituents_t) that the emitted     *)
(* host routines call: a table that is initialized to a size, takes new    *)
(* fields in order until it is locked, and then answers look-ups by name.  *)
(***************************************************************************)
NoReg == [initialized |-> FALSE, capacity |-> 0, fields |-> <<>>,
          locked |-> FALSE]

\* initialize_table(num_consts): it takes no error variables
initialize_table(r, n) ==
    [initialized |-> TRUE, capacity |-> n, fields |-> <<>>, locked |-> FALSE]

\* new_field(const_prop, errflg, errmsg): the field goes last; ok is
\* whether the call meets no error of its own
new_field(r, prop, ok) ==
    IF ok /\ r.initialized /\ ~r.locked /\ Len(r.fields) < r.capacity
    THEN [reg |-> [r EXCEPT !.fields = Append(@, prop.std_name)],
          ok |-> TRUE, errflg |-> 0, errmsg |-> <<>>]
    ELSE [reg |-> r, ok |-> FALSE, errflg |-> 1,
          errmsg |-> <<"<new_field error>">>]

\* lock_table(ncols, num_layers, num_interfaces, errflg, errmsg)
lock_table(r, ok) ==
    IF ok /\ r.initialized /\ ~r.locked
    THEN [reg |-> [r EXCEPT !.locked = TRUE], ok |-> TRUE, errflg |-> 0,
          errmsg |-> <<>>]
    ELSE [reg |-> r, ok |-> FALSE, errflg |-> 1,
          errmsg |-> <<"<lock_table error>">>]

\* the position of a name among the fields, 0 when it is not one
RECURSIVE PositionOf(_, _, _)
PositionOf(fields, name, k) ==
    IF k > Len(fields) THEN 0
    ELSE IF fields[k] = name THEN k
    ELSE PositionOf(fields, name, k + 1)

\* field_index(standard_name, errflg, errmsg): the field's index, or a
\* value below 1 when the table is not locked or has no such field
field_index(r, name) ==
    IF ~r.locked
    THEN [value |-> -1, ok |-> FALSE, errflg |-> 1,
          errmsg |-> <<"<field_index error>">>]
    ELSE IF PositionOf(r.fields, name, 1) > 0
    THEN [value |-> PositionOf(r.fields, name, 1), ok |-> TRUE,
          errflg |-> 0, errmsg |-> <<>>]
    ELSE [value |-> -1, ok |-> TRUE, errflg |-> 0, errmsg |-> <<>>]

\* the message of the emitted look-up loop (line 480)
NoFieldIndexMsg(name) == <<"No field index for ", name>>

\* the message after a failed allocate (line 451)
AllocErrorMsg == <<"ERROR allocating const_prop">>

\* one call made by the registration routine
Called(op, arg, ok) == [op |-> op, arg |-> arg, ok |-> ok]

\* the names the host may require: the first constituent of the second
\* suite, and a name that no suite has
RequiredPool == {Pool[MaxConsts + 1], "no_such_name"}

(***************************************************************************)
(* Parts of the state that a specification leaves alone                    *)
(***************************************************************************)
\* no find_variable call is under way
ResolveIdle ==
    /\ dicts = [t \in Dicts |-> <<>>]
    /\ call = NoCall
    /\ ret = <<>>
    /\ raised = FALSE
    /\ ncalls = 0

\* the generator has not been called
GenIdle ==
    /\ gen_self = <<>>
    /\ suite_name = ""
    /\ err_vars = <<>>
    /\ outfile = <<>>
    /\ gen_pc = "idle"
    /\ gen_raised = FALSE

\* no suite routine has run
SuiteIdle ==
    /\ ctable = [s \in SuiteNames |-> <<>>]
    /\ initialized = [s \in SuiteNames |-> FALSE]
    /\ carray = [s \in SuiteNames |-> <<>>]
    /\ errflg = 0
    /\ errmsg = <<>>
    /\ rt = NoRt
    /\ init_runs = [s \in SuiteNames |-> 0]

\* the registration routine has not been entered
HostIdle ==
    /\ pc = "idle"
    /\ entry_errflg = 0
    /\ si = 0
    /\ num_consts = 0
    /\ num_suite_consts = 0
    /\ index = 0
    /\ field_ind = 0
    /\ const_prop = NoProp
    /\ reg = NoReg
    /\ const_names = <<>>
    /\ const_indices = <<>>
    /\ trace = <<>>

(***************************************************************************)
(* find_variable: the calls                                                *)
(***************************************************************************)
InitResolve ==
    /\ dicts \in [Dicts -> {<<>>, <<HostVar("qv")>>}]
    /\ call = NoCall
    /\ ret = <<>>
    /\ raised = FALSE
    /\ ncalls = 0
    /\ GenIdle
    /\ SuiteIdle
    /\ HostIdle

FindVariable(t, standard_name, source_var, any_scope) ==
    /\ ncalls < MaxCalls
    /\ LET r == find_variable(dicts, t, standard_name, source_var, any_scope)
       IN  /\ dicts' = r.dicts
           /\ ret' = r.var
           /\ raised' = r.raised
    /\ call' = [dict |-> t, standard_name |-> standard_name,
                source_var |-> source_var, any_scope |-> any_scope]
    /\ ncalls' = ncalls + 1
    /\ UNCHANGED <<genVars, suiteVars, hostVars>>

NextResolve ==
    \E t \in Dicts, standard_name \in Opt(StdNames),
       source_var \in Opt(SourceVars), any_scope \in BOOLEAN :
        FindVariable(t, standard_name, source_var, any_scope)

SpecResolve == InitResolve /\ [][NextResolve]_vars


(***************************************************************************)
(* Claims about find_variable (checked under SpecResolve)                  *)
(***************************************************************************)
\* the name the last call searched for
CallName(c) == NameArg(c.standard_name, c.source_var).name

\* the step is a call that finds the name nowhere in the requesting
\* dictionary or above it and is handed a constituent source variable
MaterializingCall ==
    /\ ~raised'
    /\ call'.source_var # <<>>
    /\ call'.source_var[1].constituent
    /\ \A u \in 1..call'.dict : ~InDict(dicts[u], CallName(call'))

\* C1: a call that materializes a variable adds it to the dictionary the
\* call was made on and to no ancestor, and the new entry has source type
\* "suite".
C1_MaterializedInRequestingDict ==
    [][MaterializingCall =>
         /\ ret' # <<>>
         /\ ret'[1].source_type = "suite"
         /\ dicts'[call'.dict] = Append(dicts[call'.dict], ret'[1])
         /\ \A u \in Dicts : u # call'.dict => dicts'[u] = dicts[u]]_vars

\* the name is an entry of the root dictionary and of no other
OnlyInRoot(ds, name) ==
    /\ InDict(ds[1], name)
    /\ \A u \in Dicts : u # 1 => ~InDict(ds[u], name)

\* C8: find_variable on the last dictionary of the chain, searching parent
\* scopes, for a name that only the root holds returns the root's entry and
\* changes no dictionary, whatever source variable is passed.
C8_RootEntryThroughChain ==
    [][(/\ call'.dict = ChainLen
        /\ call'.any_scope
        /\ ~raised'
        /\ OnlyInRoot(dicts, CallName(call')))
       => /\ ret' = <<Lookup(dicts[1], CallName(call'))>>
          /\ dicts' = dicts]_vars

\* C8 witness: the first call, on the last dictionary, passed a constituent
\* source variable for a name only the root holds, and got the root's entry
C8_Witness ==
    /\ ncalls = 1
    /\ call.dict = ChainLen
    /\ call.any_scope
    /\ call.source_var # <<>>
    /\ call.source_var[1].constituent
    /\ call.source_var[1].standard_name = "qv"
    /\ OnlyInRoot(dicts, "qv")
    /\ ret = <<HostVar("qv")>>

\* the token the claim expects for a token of a dimension
C9_ExpectedToken(tok) ==
    CASE tok = <<"horizontal_loop_extent">> -> <<"horizontal_dimension">>
      [] tok = <<"horizontal_loop_end">> -> <<"horizontal_dimension">>
      [] tok = <<"horizontal_loop_begin">> -> <<"ccpp_constant_one">>
      [] OTHER -> tok

\* C9: a call on a dictionary with no parent and no entry of the name,
\* given a constituent source variable D, adds an entry with no intent
\* whose dimensions are D's, expression by expression and token by token,
\* with the three loop tokens replaced and every other token unchanged.
C9_DimensionsRewritten ==
    [][(/\ call'.dict = 1
        /\ MaterializingCall)
       => /\ ret' # <<>>
          /\ dicts'[1] = Append(dicts[1], ret'[1])
          /\ ret'[1].intent = ""
          /\ LET D == call'.source_var[1].dimensions
                 E == ret'[1].dimensions
             IN  /\ Len(E) = Len(D)
                 /\ \A k \in 1..Len(D) :
                      LET a == Split(D[k])
                          b == Split(E[k])
                      IN  /\ Len(b) = Len(a)
                          /\ \A j \in 1..Len(a) :
                               b[j] = C9_ExpectedToken(a[j])]_vars

\* C9 witness: the first call materialized "qv" in the empty root, with the
\* range begin:end rewritten and the vertical dimension kept
C9_Witness ==
    /\ ncalls = 1
    /\ call.dict = 1
    /\ ~raised
    /\ ret # <<>>
    /\ dicts[1] = <<ret[1]>>
    /\ ret[1].source_type = "suite"
    /\ ret[1].intent = ""
    /\ ret[1].dimensions =
         << <<"ccpp_constant_one", Colon, "horizontal_dimension">>,
            <<"vertical_layer_dimension">> >>


\* the call passes neither a standard name nor a source variable
NeitherGiven(c) == c.standard_name = <<>> /\ c.source_var = <<>>

\* the call passes both, and the source variable has another standard name
BothDiffer(c) ==
    /\ c.standard_name # <<>>
    /\ c.source_var # <<>>
    /\ c.source_var[1].standard_name # c.standard_name[1]

\* C12: find_variable raises when neither standard_name nor source_var is
\* passed and when both are passed with different standard names; with
\* both of the same name, or with exactly one, it does not raise; a call
\* that raises changes no dictionary of the chain.
C12_NameArgumentsChecked ==
    [][/\ (NeitherGiven(call') \/ BothDiffer(call')) <=> raised'
       /\ raised' => dicts' = dicts]_vars

\* C12 witness: after a call that added an entry, a call passing "qv" and a
\* constituent source variable named "ql" raised
C12_Witness ==
    /\ ncalls = 2
    /\ raised
    /\ ret = <<>>
    /\ BothDiffer(call)
    /\ call.standard_name = <<"qv">>
    /\ call.source_var[1].constituent
    /\ \E t \in Dicts : \E k \in 1..Len(dicts[t]) :
         dicts[t][k].source_type = constituent_type

(***************************************************************************)
(* write_constituent_routines: the steps                                   *)
(***************************************************************************)
InitGen ==
    /\ ResolveIdle
    /\ SuiteIdle
    /\ HostIdle
    /\ \E n \in 0..MaxConsts : gen_self = DictOf(0, n)
    /\ suite_name \in SuiteNames
    /\ err_vars \in ErrVarLists
    /\ outfile = <<>>
    /\ gen_pc = "init_routine"
    /\ gen_raised = FALSE

WriteInitRoutine ==
    /\ gen_pc = "init_routine"
    /\ outfile' = outfile \o InitRoutineLines(gen_self, err_vars)
    /\ gen_pc' = "num_consts"
    /\ UNCHANGED <<gen_self, suite_name, err_vars, gen_raised>>
    /\ UNCHANGED <<resolveVars, suiteVars, hostVars>>

WriteNumConsts ==
    /\ gen_pc = "num_consts"
    /\ outfile' = outfile \o NumConstsLines(gen_self, suite_name, err_vars)
    /\ gen_pc' = "const_name"
    /\ UNCHANGED <<gen_self, suite_name, err_vars, gen_raised>>
    /\ UNCHANGED <<resolveVars, suiteVars, hostVars>>

WriteConstName ==
    /\ gen_pc = "const_name"
    /\ LET r == ConstNameRoutine(gen_self, suite_name, err_vars)
       IN  /\ outfile' = outfile \o r.lines
           /\ gen_raised' = r.raised
           /\ gen_pc' = IF r.raised THEN "raised" ELSE "copy_const"
    /\ UNCHANGED <<gen_self, suite_name, err_vars>>
    /\ UNCHANGED <<resolveVars, suiteVars, hostVars>>

WriteCopyConst ==
    /\ gen_pc = "copy_const"
    /\ LET r == CopyConstRoutine(gen_self, suite_name, err_vars)
       IN  /\ outfile' = outfile \o r.lines
           /\ gen_raised' = r.raised
           /\ gen_pc' = IF r.raised THEN "raised" ELSE "done"
    /\ UNCHANGED <<gen_self, suite_name, err_vars>>
    /\ UNCHANGED <<resolveVars, suiteVars, hostVars>>

NextGen ==
    \/ WriteInitRoutine
    \/ WriteNumConsts
    \/ WriteConstName
    \/ WriteCopyConst

SpecGen == InitGen /\ [][NextGen]_vars

(***************************************************************************)
(* Claims about write_constituent_routines (checked under SpecGen)         *)
(***************************************************************************)
GenEnded == gen_pc \in {"done", "raised"}

\* the error variables are exactly errflg and errmsg
ExactlyPair(names) ==
    {names[i] : i \in 1..Len(names)} = {"errflg", "errmsg"}

InitSuite ==
    /\ ResolveIdle
    /\ GenIdle
    /\ HostIdle
    /\ ctable \in SuiteTables
    /\ initialized = [s \in SuiteNames |-> FALSE]
    /\ carray = [s \in SuiteNames |-> <<>>]
    /\ errflg \in {0, 1}
    /\ errmsg = <<>>
    /\ rt = NoRt
    /\ init_runs = [s \in SuiteNames |-> 0]

\* <suite>_num_consts(errflg, errmsg)
CallNumConsts(s) ==
    /\ LET r == suite_num_consts(ctable[s], initialized[s], carray[s],
                                 errflg, errmsg)
       IN  /\ initialized' = [initialized EXCEPT ![s] = r.initialized]
           /\ carray' = [carray EXCEPT ![s] = r.array]
           /\ errflg' = r.errflg
           /\ errmsg' = r.errmsg
           /\ init_runs' = [init_runs EXCEPT
                              ![s] = IF r.ran_init THEN @ + 1 ELSE @]
           /\ rt' = [NoRt EXCEPT !.routine = "num_consts", !.suite = s,
                                 !.writes = r.writes,
                                 !.ran_init = r.ran_init,
                                 !.value = r.value]
    /\ UNCHANGED ctable
    /\ UNCHANGED <<resolveVars, genVars, hostVars>>

\* <suite>_const_name(index, name_out, errflg, errmsg)
CallConstName(s, ix, sz, ub) ==
    /\ LET r == const_name(ctable[s], s, initialized[s], carray[s], ix, sz, ub)
       IN  /\ errflg' = r.errflg
           /\ errmsg' = r.errmsg
           /\ rt' = [NoRt EXCEPT !.routine = "const_name", !.suite = s,
                                 !.index = ix, !.reads = r.reads,
                                 !.name_out = r.name_out]
    /\ UNCHANGED <<ctable, initialized, carray, init_runs>>
    /\ UNCHANGED <<resolveVars, genVars, hostVars>>

\* <suite>_copy_const(index, cnst_out, errflg, errmsg)
CallCopyConst(s, ix, sz) ==
    /\ LET r == copy_const(ctable[s], s, initialized[s], carray[s], ix, sz)
       IN  /\ errflg' = r.errflg
           /\ errmsg' = r.errmsg
           /\ rt' = [NoRt EXCEPT !.routine = "copy_const", !.suite = s,
                                 !.index = ix, !.reads = r.reads,
                                 !.cnst_out = r.cnst_out]
    /\ UNCHANGED <<ctable, initialized, carray, init_runs>>
    /\ UNCHANGED <<resolveVars, genVars, hostVars>>

\* the index values a caller passes
Indices == 0..(MaxConsts + 1)

NextSuite ==
    \/ \E s \in SuiteNames : CallNumConsts(s)
    \/ \E s \in SuiteNames, ix \in Indices :
         \E sz \in SizeOutcomes(carray[s]), ub \in UndefinedOutcomes :
           CallConstName(s, ix, sz, ub)
    \/ \E s \in SuiteNames, ix \in Indices :
         \E sz \in SizeOutcomes(carray[s]) : CallCopyConst(s, ix, sz)

SpecSuite == InitSuite /\ [][NextSuite]_vars

(***************************************************************************)
(* Claims about the emitted suite routines (checked under SpecSuite)       *)
(***************************************************************************)
\* C4: for an initialized suite with N >= 1 constituents, the name routine
\* called with index 0 or N+1 ends with errflg = 1 and the "too small" or
\* "too large" message and has not read the array at that index; called
\* with an index in 1..N it ends with errflg = 0 and the name stored there.
C4_BoundsGuardProtectsRead ==
    (/\ rt.routine = "const_name"
     /\ initialized[rt.suite]
     /\ Len(ctable[rt.suite]) >= 1)
    => LET N == Len(ctable[rt.suite])
       IN  /\ rt.index = 0 =>
                /\ errflg = 1
                /\ errmsg = TooSmallMsg(0)
                /\ 0 \notin rt.reads
           /\ rt.index = N + 1 =>
                /\ errflg = 1
                /\ errmsg = TooLargeMsg(N + 1, N)
                /\ (N + 1) \notin rt.reads
           /\ rt.index \in 1..N =>
                /\ errflg = 0
                /\ rt.name_out = ctable[rt.suite][rt.index]

\* the message says that the suite has no constituents
SaysNoConstituents(msg) ==
    \E i \in 1..Len(msg) : msg[i] = ", has no constituents"

\* the message holds the name
Mentions(msg, name) == \E i \in 1..Len(msg) : msg[i] = name

\* C5: for a suite without constituents, the name and the copy routine end
\* with errflg = 1 and a "has no constituents" message that holds the
\* suite's name, whatever the index and the initialized flag, and read no
\* array.
C5_EmptySuiteMessageNamesSuite ==
    (/\ rt.routine \in {"const_name", "copy_const"}
     /\ ctable[rt.suite] = <<>>)
    => /\ errflg = 1
       /\ SaysNoConstituents(errmsg)
       /\ Mentions(errmsg, rt.suite)
       /\ rt.reads = {}

\* C10: once a suite is initialized its array has exactly one element for
\* each entry of its dictionary, element k holding the standard name of the
\* k-th entry; the init routine writes the indices 1..N and no other; the
\* count function returns N.
C10_InitFillsSlotsInOrder ==
    /\ \A s \in SuiteNames :
         initialized[s] =>
           /\ Len(carray[s]) = Len(ctable[s])
           /\ \A k \in 1..Len(ctable[s]) :
                carray[s][k].std_name = ctable[s][k]
    /\ rt.routine = "num_consts" =>
         /\ rt.value = Len(ctable[rt.suite])
         /\ rt.ran_init => rt.writes = 1..Len(ctable[rt.suite])
         /\ rt.writes \subseteq 1..Len(ctable[rt.suite])

\* C10 witness: the count function initialized a suite of three
\* constituents and returned 3
C10_Witness ==
    /\ rt.routine = "num_consts"
    /\ rt.ran_init
    /\ ctable[rt.suite] = <<"cld_liq", "cld_ice", "rain">>
    /\ [k \in 1..3 |-> carray[rt.suite][k].std_name]
         = <<"cld_liq", "cld_ice", "rain">>
    /\ rt.writes = {1, 2, 3}
    /\ rt.value = 3

\* the step is a call of suite s's count function
CountCall(s) == rt'.routine = "num_consts" /\ rt'.suite = s

\* C13: over any sequence of calls of a suite's routines the init routine
\* runs at most once: a count call made while the flag is false runs it
\* and sets the flag, a count call made while the flag is true does not
\* run it, the name and copy routines never run it, the flag never goes
\* back to false, and every count call returns the length of the
\* dictionary.
C13_InitRunsAtMostOnce ==
    [][\A s \in SuiteNames :
         /\ initialized[s] => initialized'[s]
         /\ init_runs'[s] <= 1
         /\ CountCall(s) =>
              /\ rt'.value = Len(ctable[s])
              /\ rt'.ran_init <=> ~initialized[s]
              /\ initialized'[s]
              /\ init_runs'[s] = init_runs[s] + (IF initialized[s] THEN 0
                                                 ELSE 1)
              /\ initialized[s] => carray'[s] = carray[s]
         /\ ~CountCall(s) =>
              /\ init_runs'[s] = init_runs[s]
              /\ initialized'[s] = initialized[s]
              /\ carray'[s] = carray[s]]_vars

\* C13 witness: a count call on a suite of three constituents that was
\* initialized before returned 3 and did not run the init routine again
C13_Witness ==
    /\ rt.routine = "num_consts"
    /\ ~rt.ran_init
    /\ initialized[rt.suite]
    /\ init_runs[rt.suite] = 1
    /\ Len(ctable[rt.suite]) = 3
    /\ Len(carray[rt.suite]) = 3
    /\ rt.value = 3

\* C14: for a suite with constituents, the name and the copy routine
\* called while the flag is false end, whatever the index, with
\* errflg = 1 and the message that the suite is not initialized, and have
\* not read the array.
C14_UninitializedGuardProtectsRead ==
    (/\ rt.routine \in {"const_name", "copy_const"}
     /\ ctable[rt.suite] # <<>>
     /\ ~initialized[rt.suite])
    => /\ errflg = 1
       /\ errmsg = NotInitializedMsg(rt.suite)
       /\ rt.reads = {}

(***************************************************************************)
(* The registration routine write_host_routines emits (lines 424-486), as  *)
(* it runs: one step for each emitted statement or guarded call.           *)
(***************************************************************************)
\* the values the status variable may hold on entry: it is an intent(out)
\* argument, which the routine reads before it assigns it
EntryStatus == {0, 1}

\* the host's lists of required names
RequiredLists == UNION {[1..n -> RequiredPool] : n \in 0..MaxRequired}

\* the suite whose block is being executed
Suite == SuiteList[si]

InitHost ==
    /\ ResolveIdle
    /\ GenIdle
    /\ ctable \in SuiteTables
    /\ initialized \in [SuiteNames -> BOOLEAN]
    /\ carray = [s \in SuiteNames |->
                   IF initialized[s]
                   THEN create_constituent_array(ctable[s]).array ELSE <<>>]
    /\ init_runs = [s \in SuiteNames |-> IF initialized[s] THEN 1 ELSE 0]
    /\ errflg \in EntryStatus
    /\ entry_errflg = errflg
    /\ errmsg = <<>>
    /\ rt = NoRt
    /\ pc = "sum"
    /\ si = 1
    /\ num_consts = 0
    /\ num_suite_consts = 0
    /\ index = 0
    /\ field_ind = 0
    /\ const_prop = NoProp
    /\ reg = NoReg
    /\ const_names \in RequiredLists
    /\ const_indices = [k \in 1..Len(const_names) |-> 0]
    /\ trace = <<>>

\* a mutant: the loop stops one short of its last index
LoopContinuesShort(ix, last) == ix < last

\* "do index = 1, last" (lines 448, 473): whether the loop runs for ix
LoopContinues(ix, last) == ix <= last

\* a mutant: the loop is never left early
ExitLoopNever(ef) == FALSE

\* "if (errflg /= 0) exit" (lines 462-464, 483-485)
ExitLoop(ef) == ef # 0

\* where control goes when the block of suite si is left: the next suite's
\* block, or the lock after the last
AfterSuite ==
    IF si < Len(SuiteList)
    THEN /\ pc' = "suite_count"
         /\ si' = si + 1
    ELSE /\ pc' = "lock"
         /\ si' = si

\* lines 425-433: num_suite_consts = <suite>_num_consts(errflg, errmsg);
\* num_consts = num_consts + num_suite_consts
SumCount ==
    /\ pc = "sum"
    /\ LET r == suite_num_consts(ctable[Suite], initialized[Suite],
                                 carray[Suite], errflg, errmsg)
       IN  /\ initialized' = [initialized EXCEPT ![Suite] = r.initialized]
           /\ carray' = [carray EXCEPT ![Suite] = r.array]
           /\ init_runs' = [init_runs EXCEPT
                              ![Suite] = IF r.ran_init THEN @ + 1 ELSE @]
           /\ errflg' = r.errflg
           /\ errmsg' = r.errmsg
           /\ num_suite_consts' = r.value
           /\ num_consts' = num_consts + r.value
    /\ trace' = Append(trace, Called("num_consts", Suite, TRUE))
    /\ IF si < Len(SuiteList)
       THEN /\ si' = si + 1
            /\ pc' = "sum"
       ELSE /\ si' = 1
            /\ pc' = "init_table"
    /\ UNCHANGED <<ctable, rt, entry_errflg, index, field_ind, const_prop,
                   reg, const_names, const_indices>>
    /\ UNCHANGED <<resolveVars, genVars>>

\* lines 434-438: if (errflg == 0) call initialize_table(num_consts)
InitTable ==
    /\ pc = "init_table"
    /\ IF errflg = 0
       THEN /\ reg' = initialize_table(reg, num_consts)
            /\ trace' = Append(trace, Called("initialize_table",
                                             ToString(num_consts), TRUE))
       ELSE UNCHANGED <<reg, trace>>
    /\ pc' = "suite_count"
    /\ UNCHANGED <<entry_errflg, si, num_consts, num_suite_consts, index,
                   field_ind, const_prop, const_names, const_indices>>
    /\ UNCHANGED <<resolveVars, genVars, suiteVars>>

\* lines 440-448: if (errflg == 0) num_suite_consts = <suite>_num_consts();
\* then the head of "do index = 1, num_suite_consts", which is not inside
\* the if
SuiteCount ==
    /\ pc = "suite_count"
    /\ IF errflg = 0
       THEN /\ LET r == suite_num_consts(ctable[Suite], initialized[Suite],
                                         carray[Suite], errflg, errmsg)
               IN  /\ initialized' = [initialized EXCEPT
                                        ![Suite] = r.initialized]
                   /\ carray' = [carray EXCEPT ![Suite] = r.array]
                   /\ init_runs' = [init_runs EXCEPT
                                      ![Suite] = IF r.ran_init THEN @ + 1
                                                 ELSE @]
                   /\ errflg' = r.errflg
                   /\ errmsg' = r.errmsg
                   /\ num_suite_consts' = r.value
            /\ trace' = Append(trace, Called("num_consts", Suite, TRUE))
       ELSE UNCHANGED <<initialized, carray, init_runs, errflg, errmsg,
                        num_suite_consts, trace>>
    /\ index' = 1
    /\ IF LoopContinues(1, num_suite_consts')
       THEN /\ pc' = "allocate"
            /\ si' = si
       ELSE AfterSuite
    /\ UNCHANGED <<ctable, rt, entry_errflg, num_consts, field_ind,
                   const_prop, reg, const_names, const_indices>>
    /\ UNCHANGED <<resolveVars, genVars>>

\* lines 449-452: allocate(const_prop, stat=errflg): the status is assigned
\* whether or not the allocation succeeds
Allocate(ok) ==
    /\ pc = "allocate"
    /\ errflg' = IF ok THEN 0 ELSE 1
    /\ errmsg' = IF ok THEN errmsg ELSE AllocErrorMsg
    /\ const_prop' = IF ok THEN NoProp ELSE UndefinedProp
    /\ trace' = Append(trace, Called("allocate", "", ok))
    /\ pc' = "copy"
    /\ UNCHANGED <<ctable, initialized, carray, rt, init_runs>>
    /\ UNCHANGED <<entry_errflg, si, num_consts, num_suite_consts, index,
                   field_ind, reg, const_names, const_indices>>
    /\ UNCHANGED <<resolveVars, genVars>>

\* lines 453-456: if (errflg == 0) call <suite>_copy_const(index, const_prop)
CopyProps(sz) ==
    /\ pc = "copy"
    /\ IF errflg = 0
       THEN LET r == copy_const(ctable[Suite], Suite, initialized[Suite],
                                carray[Suite], index, sz)
            IN  /\ errflg' = r.errflg
                /\ errmsg' = r.errmsg
                /\ const_prop' = r.cnst_out
                /\ trace' = Append(trace, Called("copy_const", Suite,
                                                 r.errflg = 0))
       ELSE UNCHANGED <<errflg, errmsg, const_prop, trace>>
    /\ pc' = "new_field"
    /\ UNCHANGED <<ctable, initialized, carray, rt, init_runs>>
    /\ UNCHANGED <<entry_errflg, si, num_consts, num_suite_consts, index,
                   field_ind, reg, const_names, const_indices>>
    /\ UNCHANGED <<resolveVars, genVars>>

\* lines 457-460: if (errflg == 0) call new_field(const_prop, errflg, errmsg)
NewField(ok) ==
    /\ pc = "new_field"
    /\ IF errflg = 0
       THEN LET r == new_field(reg, const_prop, ok)
            IN  /\ reg' = r.reg
                /\ errflg' = r.errflg
                /\ errmsg' = r.errmsg
                /\ trace' = Append(trace, Called("new_field",
                                                 const_prop.std_name, r.ok))
       ELSE UNCHANGED <<reg, errflg, errmsg, trace>>
    /\ pc' = "end_iter"
    /\ UNCHANGED <<ctable, initialized, carray, rt, init_runs>>
    /\ UNCHANGED <<entry_errflg, si, num_consts, num_suite_consts, index,
                   field_ind, const_prop, const_names, const_indices>>
    /\ UNCHANGED <<resolveVars, genVars>>

\* lines 461-465: nullify(const_prop); if (errflg /= 0) exit; end do
EndIter ==
    /\ pc = "end_iter"
    /\ const_prop' = NoProp
    /\ IF ExitLoop(errflg)
       THEN /\ index' = index
            /\ AfterSuite
       ELSE /\ index' = index + 1
            /\ IF LoopContinues(index + 1, num_suite_consts)
               THEN /\ pc' = "allocate"
                    /\ si' = si
               ELSE AfterSuite
    /\ UNCHANGED <<entry_errflg, num_consts, num_suite_consts, field_ind,
                   reg, const_names, const_indices, trace>>
    /\ UNCHANGED <<resolveVars, genVars, suiteVars>>

\* lines 468-473: if (errflg == 0) call lock_table(...); then the head of
\* "do index = 1, SIZE(const_indices)"
Lock(ok) ==
    /\ pc = "lock"
    /\ IF errflg = 0
       THEN LET r == lock_table(reg, ok)
            IN  /\ reg' = r.reg
                /\ errflg' = r.errflg
                /\ errmsg' = r.errmsg
                /\ trace' = Append(trace, Called("lock_table", "", r.ok))
       ELSE UNCHANGED <<reg, errflg, errmsg, trace>>
    /\ index' = 1
    /\ pc' = IF LoopContinues(1, Len(const_indices)) THEN "lookup"
             ELSE "done"
    /\ UNCHANGED <<ctable, initialized, carray, rt, init_runs>>
    /\ UNCHANGED <<entry_errflg, si, num_consts, num_suite_consts,
                   field_ind, const_prop, const_names, const_indices>>
    /\ UNCHANGED <<resolveVars, genVars>>

\* lines 474-486: one turn of the look-up loop, which is not inside an if
LookupIndex ==
    /\ pc = "lookup"
    /\ LET r == field_index(reg, const_names[index])
       IN  /\ field_ind' = r.value
           /\ trace' = Append(trace, Called("field_index",
                                            const_names[index], r.ok))
           /\ IF r.value > 0
              THEN /\ const_indices' = [const_indices EXCEPT
                                          ![index] = r.value]
                   /\ errflg' = r.errflg
                   /\ errmsg' = r.errmsg
              ELSE /\ const_indices' = const_indices
                   /\ errflg' = 1
                   /\ errmsg' = NoFieldIndexMsg(const_names[index])
    /\ IF ExitLoop(errflg')
       THEN /\ index' = index
            /\ pc' = "done"
       ELSE /\ index' = index + 1
            /\ pc' = IF LoopContinues(index + 1, Len(const_indices))
                     THEN "lookup"
                     ELSE "done"
    /\ UNCHANGED <<ctable, initialized, carray, rt, init_runs>>
    /\ UNCHANGED <<entry_errflg, si, num_consts, num_suite_consts,
                   const_prop, reg, const_names>>
    /\ UNCHANGED <<resolveVars, genVars>>

NextHost ==
    \/ SumCount
    \/ InitTable
    \/ SuiteCount
    \/ \E ok \in BOOLEAN : Allocate(ok)
    \/ \E sz \in SizeOutcomes(carray[Suite]) : CopyProps(sz)
    \/ \E ok \in BOOLEAN : NewField(ok)
    \/ EndIter
    \/ \E ok \in BOOLEAN : Lock(ok)
    \/ LookupIndex

SpecHost == InitHost /\ [][NextHost]_vars


(***************************************************************************)
(* Claims about the emitted registration routine (checked under SpecHost)  *)
(***************************************************************************)
\* the calls in a trace that change the constituent object
MutatingCalls(tr) ==
    SelectSeq(tr, LAMBDA c :
        c.op \in {"initialize_table", "new_field", "lock_table"})

\* C2: in a run of the registration routine, once errflg is not zero it
\* stays not zero to the end of the run and no initialize_table, new_field
\* or lock_table is called any more. (Stated for the runs entered with
\* errflg = 0, so that errflg is not zero only once the routine made it
\* so.)
C2_StatusIsSticky ==
    [][(entry_errflg = 0 /\ errflg # 0)
       => /\ errflg' # 0
          /\ MutatingCalls(trace') = MutatingCalls(trace)]_vars

\* the look-ups made, in order
LookupCalls == SelectSeq(trace, LAMBDA c : c.op = "field_index")

\* the run has ended with a look-up that found no index
LookupFailed ==
    /\ pc = "done"
    /\ Len(trace) > 0
    /\ trace[Len(trace)].op = "field_index"
    /\ field_ind <= 0

\* C6: the required names are looked up in list order; when the look-up of
\* the name at position p yields no index, the routine ends with
\* errflg = 1 and the message "No field index for <name>", having made no
\* look-up after it: the positions before p of the index array hold the
\* indices found and the positions from p on are not written.
C6_FailedLookupStopsLoop ==
    LookupFailed
    => /\ errflg = 1
       /\ index \in 1..Len(const_names)
       /\ errmsg = <<"No field index for ", const_names[index]>>
       /\ [k \in 1..Len(LookupCalls) |-> LookupCalls[k].arg]
            = SubSeq(const_names, 1, index)
       /\ \A q \in 1..(index - 1) :
            /\ const_indices[q] > 0
            /\ reg.fields[const_indices[q]] = const_names[q]
       /\ \A q \in index..Len(const_indices) : const_indices[q] = 0

\* C6 witness: the second of three required names has no field; the first
\* got its index and the third was not looked up
C6_Witness ==
    /\ LookupFailed
    /\ Len(const_names) = 3
    /\ index = 2
    /\ const_names[2] = "no_such_name"
    /\ const_names[3] # "no_such_name"
    /\ const_indices[1] > 0
    /\ const_indices[2] = 0
    /\ const_indices[3] = 0
    /\ errflg = 1

\* the run has ended, no call it made failed, and errflg is 0
ErrorFree ==
    /\ pc = "done"
    /\ errflg = 0
    /\ \A i \in 1..Len(trace) : trace[i].ok

\* the number of constituents of the suites before position j of suite_list
RECURSIVE CountBefore(_)
CountBefore(j) ==
    IF j <= 1 THEN 0
    ELSE CountBefore(j - 1) + Len(ctable[SuiteList[j - 1]])

\* C7: after an error-free registration the constituent object was
\* initialized to the sum of the suites' counts, exactly that many fields
\* were registered, and the k-th constituent of the j-th suite has field
\* index (the counts of the suites before it) + k; a required name of the
\* second suite got an index within the second suite's range, not 0.
C7_FieldsInSuiteOrder ==
    ErrorFree
    => LET total == CountBefore(Len(SuiteList) + 1)
       IN  /\ reg.initialized
           /\ reg.capacity = total
           /\ Len(reg.fields) = total
           /\ Len(SelectSeq(trace, LAMBDA c : c.op = "new_field")) = total
           /\ \A j \in 1..Len(SuiteList) :
                \A k \in 1..Len(ctable[SuiteList[j]]) :
                  /\ reg.fields[CountBefore(j) + k] = ctable[SuiteList[j]][k]
                  /\ field_index(reg, ctable[SuiteList[j]][k]).value
                       = CountBefore(j) + k
           /\ \A q \in 1..Len(const_names) :
                \A k \in 1..Len(ctable[SuiteList[2]]) :
                  const_names[q] = ctable[SuiteList[2]][k]
                  => const_indices[q] = Len(ctable[SuiteList[1]]) + k

\* C7 witness: suites of 2 and 3 constituents registered without error:
\* 5 fields, and the required first name of the second suite has index 3
C7_Witness ==
    /\ ErrorFree
    /\ Len(ctable[SuiteList[1]]) = 2
    /\ Len(ctable[SuiteList[2]]) = 3
    /\ reg.capacity = 5
    /\ Len(reg.fields) = 5
    /\ const_names = <<ctable[SuiteList[2]][1]>>
    /\ const_indices = <<3>>

\* the calls of the trace before position i
Before(i) == SubSeq(trace, 1, i - 1)

\* C11: in every run of the registration routine, failed steps included,
\* the calls on the constituent object come in lifecycle order:
\* initialize_table before any new_field; lock_table only when no call
\* before it failed and every suite's constituents were registered; and
\* field_index only after a lock_table that succeeded. (Stated for the
\* runs entered with errflg = 0.)
C11_LifecycleOrder ==
    entry_errflg = 0 =>
      \A i \in 1..Len(trace) :
        /\ trace[i].op = "new_field" =>
             \E j \in 1..(i - 1) : trace[j].op = "initialize_table"
        /\ trace[i].op = "lock_table" =>
             /\ \A j \in 1..(i - 1) : trace[j].ok
             /\ Len(SelectSeq(Before(i), LAMBDA c : c.op = "new_field"))
                  = CountBefore(Len(SuiteList) + 1)
        /\ trace[i].op = "field_index" =>
             \E j \in 1..(i - 1) :
                trace[j].op = "lock_table" /\ trace[j].ok

\* the calls made on the constituent object, in order
RegistryCalls ==
    SelectSeq(trace, LAMBDA c :
        c.op \in {"initialize_table", "new_field", "lock_table",
                  "field_index"})

\* the constituents of all suites, in the order of suite_list
RECURSIVE AllConstituents(_)
AllConstituents(j) ==
    IF j > Len(SuiteList) THEN <<>>
    ELSE ctable[SuiteList[j]] \o AllConstituents(j + 1)

\* the calls on the constituent object of a run in which nothing fails:
\* they are determined by the suites and the required names
ExpectedRegistryCalls ==
    << Called("initialize_table", ToString(Len(AllConstituents(1))), TRUE) >>
    \o [k \in 1..Len(AllConstituents(1)) |->
          Called("new_field", AllConstituents(1)[k], TRUE)]
    \o << Called("lock_table", "", TRUE) >>
    \o [q \in 1..Len(const_names) |->
          Called("field_index", const_names[q], TRUE)]

\* every required name is a constituent of a suite
RequiredAreConstituents ==
    \A q \in 1..Len(const_names) :
       \E k \in 1..Len(AllConstituents(1)) :
          AllConstituents(1)[k] = const_names[q]

\* C15: the outcome of a run in which no called operation fails does not
\* depend on the value errflg holds on entry: whatever that value, the run
\* makes the calls on the constituent object that the suites and the
\* required names determine, and ends with errflg = 0.
C15_EntryStatusIrrelevant ==
    (/\ pc = "done"
     /\ \A i \in 1..Len(trace) : trace[i].ok
     /\ RequiredAreConstituents)
    => /\ errflg = 0
       /\ RegistryCalls = ExpectedRegistryCalls

\* with errflg = 0 on entry the runs in which nothing fails do end so
ZeroEntryRunsAsExpected == entry_errflg = 0 => C15_EntryStatusIrrelevant

=============================================================================
